---- MODULE Spec2Model ----
(***************************************************************************)
(* Model of legacy_tutorials/aqua/finance/optimization/                    *)
(* portfolio_optimization.ipynb: the notebook's code cells run top to       *)
(* bottom in one kernel, and its two helper functions index_to_selection   *)
(* and print_result.                                                       *)
(*                                                                         *)
(* Numbers.  mu and sigma are integers counted in 1/Unit; q = q_num/q_den, *)
(* so a portfolio value is kept exactly as an integer number of "ticks" of *)
(* 1/(q_den*Unit).  The '%.4f' rendering of a value is modelled by Fmt4,   *)
(* which yields the printed decimal as a number of 1/10^4.                 *)
(*                                                                         *)
(* Library calls.  The qiskit functions the notebook calls are not part of *)
(* the notebook; each is modelled by what the notebook documents about it  *)
(* (its markdown cells and its recorded outputs) and the place is named at *)
(* the definition.  A library call is assumed to return.                   *)
(***************************************************************************)
EXTENDS Integers, Sequences, FiniteSets, TLC

\* ------------------------------------------------------------------ bounds
\* the synthetic instances give some of the assets the mean return
\* level * MuStep, level in 0..MaxMu, and the others 0
MaxMu == 1
\* index_to_selection is exercised for every width 1..MaxN
MaxN == 5

\* ------------------------------------------------------------ the notebook's parameters
num_assets == 4
q_num == 1
q_den == 2
budget == num_assets \div 2
penalty == num_assets
seed == 50
FmtDecimals == 4

Unit == 10 ^ (FmtDecimals + 1)
TicksPerOne == q_den * Unit
MuStep == 5 * Unit

Assets == 0 .. (num_assets - 1)
Indices == 0 .. (2 ^ num_assets - 1)

\* ------------------------------------------------------------ index_to_selection
RECURSIVE format_b(_)
\* "{0:b}".format(i): the binary digits of i, most significant first
format_b(i) ==
  IF i < 2 THEN << (IF i = 1 THEN "1" ELSE "0") >>
  ELSE Append(format_b(i \div 2), (IF i % 2 = 1 THEN "1" ELSE "0"))

\* str.rjust(width): pad with blanks on the left, never truncate
rjust(s, width) ==
  IF Len(s) >= width THEN s
  ELSE [k \in 1 .. (width - Len(s)) |-> " "] \o s

\* the same function with the reversal of the positions forgotten
index_to_selection_bigendian(i, n) ==
  LET s == rjust(format_b(i), n)
  IN  [k \in 0 .. (n - 1) |-> IF s[k + 1] = "1" THEN 1 ELSE 0]

\* x = [1 if s[i]=='1' else 0 for i in reversed(range(num_assets))]:
\* entry k of x is character n-1-k (0-based) of s
index_to_selection(i, n) ==
  LET s == rjust(format_b(i), n)
  IN  [k \in 0 .. (n - 1) |-> IF s[(n - 1 - k) + 1] = "1" THEN 1 ELSE 0]

\* ------------------------------------------------------------ arithmetic helpers
RECURSIVE SumTo(_, _)
\* sum of f[0] .. f[n-1]
SumTo(f, n) == IF n = 0 THEN 0 ELSE SumTo(f, n - 1) + f[n - 1]

Ones(x, n) == SumTo(x, n)
Weighted(x, n) == SumTo([k \in 0 .. (n - 1) |-> x[k] * (2 ^ k)], n)
Bit(i, k) == (i \div (2 ^ k)) % 2

Min(S) == CHOOSE v \in S : \A w \in S : v <= w
Max(S) == CHOOSE v \in S : \A w \in S : v >= w

\* ------------------------------------------------------------ library: qiskit.finance.ising.portfolio
q == [num |-> q_num, den |-> q_den]

\* x' Sigma x
portfolio_variance(x, sigma_) ==
  SumTo([i \in Assets |-> SumTo([j \in Assets |-> x[i] * sigma_[i][j] * x[j]], num_assets)],
        num_assets)

\* mu' x
portfolio_expected_value(x, mu_) == SumTo([i \in Assets |-> mu_[i] * x[i]], num_assets)

\* the penalty term with the sign of the notebook's introduction ("subtracted")
portfolio_value_subtracted(x, mu_, sigma_, q_, budget_, penalty_) ==
    q_.num * portfolio_variance(x, sigma_)
  - q_.den * portfolio_expected_value(x, mu_)
  - q_.den * Unit * penalty_ * (Ones(x, num_assets) - budget_) * (Ones(x, num_assets) - budget_)

\* portfolio.portfolio_value(x, mu, sigma, q, budget, penalty), in ticks: the
\* objective q x'Sigma x - mu'x of the introduction plus the scaled penalty
\* term; the recorded tables fix the sign (the all-zero row shows 16.0000)
portfolio_value(x, mu_, sigma_, q_, budget_, penalty_) ==
    q_.num * portfolio_variance(x, sigma_)
  - q_.den * portfolio_expected_value(x, mu_)
  + q_.den * Unit * penalty_ * (Ones(x, num_assets) - budget_) * (Ones(x, num_assets) - budget_)

\* portfolio.get_operator(mu, sigma, q, budget, penalty): the operator is kept
\* as the problem it encodes
get_operator(mu_, sigma_, q_, budget_, penalty_) ==
  [mu |-> mu_, sigma |-> sigma_, q |-> q_, budget |-> budget_, penalty |-> penalty_]

\* sample_most_likely(state_vector), the vector abstracted to the index `top'
\* of its largest amplitude: qubit k of the basis state is entry k
sample_most_likely(top) == [k \in Assets |-> Bit(top, k)]

\* energy of basis state i under the operator: the value of the selection it
\* encodes ("a Hamiltonian whose ground state corresponds to the optimal
\* solution" of the penalised problem)
Energy(op, i) ==
  portfolio_value(sample_most_likely(i), op.mu, op.sigma, op.q, op.budget, op.penalty)

GroundStates(op) ==
  {i \in Indices : \A j \in Indices : Energy(op, i) <= Energy(op, j)}

\* '%.4f' / '{:.4f}' of a value in ticks: the nearest multiple of 10^-4,
\* ties to even, as a count of 10^-4
Fmt4(v) ==
  LET step == TicksPerOne \div (10 ^ FmtDecimals)
      d == v \div step
      r == v % step
  IN  IF 2 * r > step \/ (2 * r = step /\ d % 2 = 1) THEN d + 1 ELSE d

\* ------------------------------------------------------------ the recorded run
\* "Optimal: selection [...]" lines of the three recorded outputs
RecordedExactSelection == [k \in Assets |-> <<0, 0, 1, 1>>[k + 1]]
RecordedVQESelection == [k \in Assets |-> <<1, 0, 1, 0>>[k + 1]]
RecordedQAOASelection == [k \in Assets |-> <<0, 0, 1, 1>>[k + 1]]

\* the value column of the recorded tables, in 10^-4, by selection
RecordedValue(x) ==
  LET t == << <<0,0,0,0, 160000>>, <<1,0,0,0, 40023>>, <<0,1,0,0, 40021>>,
              <<1,1,0,0, 44>>,     <<0,0,1,0, 39843>>, <<1,0,1,0, -131>>,
              <<0,1,1,0, -139>>,   <<1,1,1,0, 39887>>, <<0,0,0,1, 39961>>,
              <<1,0,0,1, -14>>,    <<0,1,0,1, -18>>,   <<1,1,0,1, 40007>>,
              <<0,0,1,1, -196>>,   <<1,0,1,1, 39831>>, <<0,1,1,1, 39823>>,
              <<1,1,1,1, 159850>> >>
      r == CHOOSE r \in 1 .. Len(t) : \A k \in Assets : t[r][k + 1] = x[k]
  IN  t[r][num_assets + 1]

\* a mean vector and covariance matrix (in 1/Unit) that print the recorded
\* tables; the run's own random data are not part of the notebook
RecordedMu == [k \in Assets |-> <<-200, -190, 1600, 410>>[k + 1]]
RecordedSigma ==
  [i \in Assets |-> [j \in Assets |->
     << <<60,   0,  26, 18>>,
        << 0,  40, -28,  4>>,
        <<26, -28,  60,  0>>,
        <<18,   4,   0, 40>> >>[i + 1][j + 1]]]
RecordedData == [mu |-> RecordedMu, sigma |-> RecordedSigma]
RecordedOp == get_operator(RecordedMu, RecordedSigma, q, budget, penalty)

TopOf(x) == Weighted(x, num_assets)

\* ------------------------------------------------------------ library: data provider and solvers
\* RandomDataProvider.run() followed by the two getters: the (mean vector,
\* covariance matrix) pairs the random data may yield
DataOutcomes ==
  {RecordedData} \cup
  { [mu |-> [k \in Assets |-> IF k \in S THEN level * MuStep ELSE 0],
     sigma |-> RecordedSigma] :
      level \in 0 .. MaxMu, S \in SUBSET Assets }

\* ExactEigensolver(qubitOp, k=1).run(): eigvecs[0] is a ground state
ExactEigensolver_run(op) == GroundStates(op)

\* VQE(qubitOp, ry, cobyla).run(quantum_instance): a heuristic; the recorded
\* run fixes its outcome on the recorded problem
VQE_run(op, qi) ==
  IF op = RecordedOp THEN {TopOf(RecordedVQESelection)} ELSE Indices

\* QAOA(qubitOp, cobyla, 3).run(quantum_instance)
QAOA_run(op, qi) ==
  IF op = RecordedOp THEN {TopOf(RecordedQAOASelection)} ELSE Indices

\* ------------------------------------------------------------ state
VARIABLES
  pc,               \* the cell the run is at ("done" after the last, "error" after a NameError)
  defined,          \* the global names bound in the kernel
  provider,         \* value of `provider'
  mu, sigma,        \* values of `mu' and `sigma'
  qubitOp,          \* value of `qubitOp'
  quantum_instance, \* value of `quantum_instance'
  result,           \* value of `result'
  out,              \* what print_result has written, one entry per call
  trace,            \* the library calls and print_result calls made so far
  reads,            \* the global names read by the cells run after the setup cell
  idx_pc, idx_i, idx_n, idx_x   \* a call of index_to_selection on its own

vars == <<pc, defined, provider, mu, sigma, qubitOp, quantum_instance, result,
          out, trace, reads, idx_pc, idx_i, idx_n, idx_x>>

nbvars == <<pc, defined, provider, mu, sigma, qubitOp, quantum_instance, result,
            out, trace, reads>>
idxvars == <<idx_pc, idx_i, idx_n, idx_x>>

\* values of names that are not bound yet
NoVector == [k \in Assets |-> 0]
NoMatrix == [i \in Assets |-> [j \in Assets |-> 0]]
NoOp == get_operator(NoVector, NoMatrix, [num |-> 0, den |-> 1], 0, 0)
NoInstance == [backend |-> [provider |-> "none", name |-> "none"],
               seed_simulator |-> 0, seed_transpiler |-> 0]
NoResult == [by |-> "none", top |-> 0]

\* ------------------------------------------------------------ names bound and read by each cell
ImportedNames == {"BasicAer", "QuantumInstance", "portfolio", "sample_most_likely",
                  "RandomDataProvider", "VQE", "QAOA", "ExactEigensolver", "COBYLA",
                  "RY", "np", "datetime"}

\* globals print_result and index_to_selection read when called
PrintReads == {"sample_most_likely", "portfolio", "mu", "sigma", "q", "budget",
               "penalty", "np", "num_assets", "index_to_selection"}

Reads(cell) ==
  CASE cell = "imports"  -> {}
    [] cell = "setup"    -> {}
    [] cell = "data"     -> {"RandomDataProvider", "datetime"}
    [] cell = "operator" -> {"num_assets", "portfolio", "mu", "sigma"}
    [] cell = "utils"    -> {}
    [] cell = "exact"    -> {"ExactEigensolver", "qubitOp", "print_result"} \cup PrintReads
    [] cell = "vqe"      -> {"BasicAer", "COBYLA", "RY", "qubitOp", "VQE", "QuantumInstance",
                             "print_result"} \cup PrintReads
    [] cell = "qaoa"     -> {"BasicAer", "COBYLA", "QAOA", "qubitOp", "QuantumInstance",
                             "print_result"} \cup PrintReads
    [] cell = "version"  -> {}

Writes(cell) ==
  CASE cell = "imports"  -> ImportedNames
    [] cell = "setup"    -> {"IBMQ", "provider"}
    [] cell = "data"     -> {"num_assets", "stocks", "data", "mu", "sigma"}
    [] cell = "operator" -> {"q", "budget", "penalty", "qubitOp", "offset"}
    [] cell = "utils"    -> {"index_to_selection", "print_result"}
    [] cell = "exact"    -> {"exact_eigensolver", "result"}
    [] cell = "vqe"      -> {"backend", "seed", "cobyla", "ry", "vqe", "quantum_instance",
                             "result"}
    [] cell = "qaoa"     -> {"backend", "seed", "cobyla", "qaoa", "quantum_instance",
                             "result"}
    [] cell = "version"  -> {"qiskit"}

\* the order with the VQE and QAOA cells exchanged
Below_swapped(cell) ==
  CASE cell = "imports"  -> "setup"
    [] cell = "setup"    -> "data"
    [] cell = "data"     -> "operator"
    [] cell = "operator" -> "utils"
    [] cell = "utils"    -> "exact"
    [] cell = "exact"    -> "qaoa"
    [] cell = "qaoa"     -> "vqe"
    [] cell = "vqe"      -> "version"
    [] cell = "version"  -> "done"

\* the cell below `cell'
Below(cell) ==
  CASE cell = "imports"  -> "setup"
    [] cell = "setup"    -> "data"
    [] cell = "data"     -> "operator"
    [] cell = "operator" -> "utils"
    [] cell = "utils"    -> "exact"
    [] cell = "exact"    -> "vqe"
    [] cell = "vqe"      -> "qaoa"
    [] cell = "qaoa"     -> "version"
    [] cell = "version"  -> "done"

\* ------------------------------------------------------------ print_result
Event(ev_, by_, op_, qi_, res_) ==
  [ev |-> ev_, by |-> by_, op |-> op_, qi |-> qi_, res |-> res_]

\* one line of the table, or the "Optimal" line
Line(x, value) == [x |-> x, value |-> value, text |-> Fmt4(value)]

\* print_result with the value of the "Optimal" line repeated in every row
printed_stale_value(res) ==
  LET selection == sample_most_likely(res.top)
      value == portfolio_value(selection, mu, sigma, q, budget, penalty)
  IN  [result |-> res,
       optimal |-> Line(selection, value),
       rows |-> { Line(index_to_selection(i, num_assets), value) : i \in Indices }]

\* what print_result(result) writes: the "Optimal" line and one row per
\* index (the probability column and the order of the rows are not kept)
printed(res) ==
  LET selection == sample_most_likely(res.top)
      value == portfolio_value(selection, mu, sigma, q, budget, penalty)
  IN  [result |-> res,
       optimal |-> Line(selection, value),
       rows |-> { Line(index_to_selection(i, num_assets),
                       portfolio_value(index_to_selection(i, num_assets),
                                       mu, sigma, q, budget, penalty)) :
                  i \in Indices }]

\* ------------------------------------------------------------ running a cell
Bound(cell) == Reads(cell) \subseteq defined

\* a cell that reads an unbound name raises NameError and the run stops
Stop ==
  /\ pc' = "error"
  /\ UNCHANGED <<defined, provider, mu, sigma, qubitOp, quantum_instance, result, out,
                 trace, reads>>

Bind(cell) ==
  /\ defined' = defined \cup Writes(cell)
  /\ reads' = reads \cup Reads(cell)
  /\ pc' = Below(cell)

BasicAer_get_backend(name) == [provider |-> "BasicAer", name |-> name]
provider_get_backend(name) == [provider |-> provider, name |-> name]

QuantumInstance(backend, seed_simulator, seed_transpiler) ==
  [backend |-> backend, seed_simulator |-> seed_simulator,
   seed_transpiler |-> seed_transpiler]

\* ------------------------------------------------------------ the cells
Init ==
  /\ pc = "imports"
  /\ defined = {}
  /\ provider = "unbound"
  /\ mu = NoVector
  /\ sigma = NoMatrix
  /\ qubitOp = NoOp
  /\ quantum_instance = NoInstance
  /\ result = NoResult
  /\ out = <<>>
  /\ trace = <<>>
  /\ reads = {}
  /\ idx_pc = "off" /\ idx_i = 0 /\ idx_n = 1 /\ idx_x = [k \in {0} |-> 0]

ImportsCell ==
  /\ pc = "imports"
  /\ UNCHANGED idxvars
  /\ IF Bound("imports")
     THEN /\ defined' = defined \cup Writes("imports")
          /\ pc' = Below("imports")
          /\ UNCHANGED <<provider, mu, sigma, qubitOp, quantum_instance, result, out,
                         trace, reads>>
     ELSE Stop

\* from qiskit import IBMQ; provider = IBMQ.load_account()
SetupCell ==
  /\ pc = "setup"
  /\ UNCHANGED idxvars
  /\ IF Bound("setup")
     THEN /\ provider' = "account"
          /\ defined' = defined \cup Writes("setup")
          /\ pc' = Below("setup")
          /\ UNCHANGED <<mu, sigma, qubitOp, quantum_instance, result, out, trace, reads>>
     ELSE Stop

\* the optional cell left out of the run
SkipSetupCell ==
  /\ pc = "setup"
  /\ pc' = Below("setup")
  /\ UNCHANGED <<defined, provider, mu, sigma, qubitOp, quantum_instance, result, out,
                 trace, reads>>
  /\ UNCHANGED idxvars

DataCell ==
  /\ pc = "data"
  /\ UNCHANGED idxvars
  /\ IF Bound("data")
     THEN /\ \E d \in DataOutcomes :
               /\ mu' = d.mu
               /\ sigma' = d.sigma
          /\ trace' = Append(trace, Event("data", "RandomDataProvider", NoOp, NoInstance,
                                          NoResult))
          /\ Bind("data")
          /\ UNCHANGED <<provider, qubitOp, quantum_instance, result, out>>
     ELSE Stop

\* the operator cell with budget and penalty passed in each other's place
OperatorCell_swapped ==
  /\ pc = "operator"
  /\ UNCHANGED idxvars
  /\ IF Bound("operator")
     THEN /\ qubitOp' = get_operator(mu, sigma, q, penalty, budget)
          /\ trace' = Append(trace, Event("operator", "portfolio", qubitOp', NoInstance,
                                          NoResult))
          /\ Bind("operator")
          /\ UNCHANGED <<provider, mu, sigma, quantum_instance, result, out>>
     ELSE Stop

OperatorCell ==
  /\ pc = "operator"
  /\ UNCHANGED idxvars
  /\ IF Bound("operator")
     THEN /\ qubitOp' = get_operator(mu, sigma, q, budget, penalty)
          /\ trace' = Append(trace, Event("operator", "portfolio", qubitOp', NoInstance,
                                          NoResult))
          /\ Bind("operator")
          /\ UNCHANGED <<provider, mu, sigma, quantum_instance, result, out>>
     ELSE Stop

UtilsCell ==
  /\ pc = "utils"
  /\ UNCHANGED idxvars
  /\ IF Bound("utils")
     THEN /\ Bind("utils")
          /\ UNCHANGED <<provider, mu, sigma, qubitOp, quantum_instance, result, out, trace>>
     ELSE Stop

\* result = <solver>.run(...); print_result(result)
Solved(by, qi, top) ==
  /\ result' = [by |-> by, top |-> top]
  /\ trace' = trace \o << Event("solve", by, qubitOp, qi, result'),
                          Event("print", "print_result", NoOp, NoInstance, result') >>
  /\ out' = Append(out, printed(result'))

ExactCell ==
  /\ pc = "exact"
  /\ UNCHANGED idxvars
  /\ IF Bound("exact")
     THEN /\ \E top \in ExactEigensolver_run(qubitOp) : Solved("exact", NoInstance, top)
          /\ Bind("exact")
          /\ UNCHANGED <<provider, mu, sigma, qubitOp, quantum_instance>>
     ELSE Stop

\* the VQE cell with the backend taken from the account's provider
VQECell_remote ==
  /\ pc = "vqe"
  /\ UNCHANGED idxvars
  /\ IF (Reads("vqe") \cup {"provider"}) \subseteq defined
     THEN /\ quantum_instance' =
               QuantumInstance(provider_get_backend("statevector_simulator"), seed, seed)
          /\ \E top \in VQE_run(qubitOp, quantum_instance') :
               Solved("vqe", quantum_instance', top)
          /\ defined' = defined \cup Writes("vqe")
          /\ reads' = reads \cup Reads("vqe") \cup {"provider"}
          /\ pc' = Below("vqe")
          /\ UNCHANGED <<provider, mu, sigma, qubitOp>>
     ELSE Stop

VQECell ==
  /\ pc = "vqe"
  /\ UNCHANGED idxvars
  /\ IF Bound("vqe")
     THEN /\ quantum_instance' =
               QuantumInstance(BasicAer_get_backend("statevector_simulator"), seed, seed)
          /\ \E top \in VQE_run(qubitOp, quantum_instance') :
               Solved("vqe", quantum_instance', top)
          /\ Bind("vqe")
          /\ UNCHANGED <<provider, mu, sigma, qubitOp>>
     ELSE Stop

QAOACell ==
  /\ pc = "qaoa"
  /\ UNCHANGED idxvars
  /\ IF Bound("qaoa")
     THEN /\ quantum_instance' =
               QuantumInstance(BasicAer_get_backend("statevector_simulator"), seed, seed)
          /\ \E top \in QAOA_run(qubitOp, quantum_instance') :
               Solved("qaoa", quantum_instance', top)
          /\ Bind("qaoa")
          /\ UNCHANGED <<provider, mu, sigma, qubitOp>>
     ELSE Stop

\* import qiskit.tools.jupyter and the two magics
VersionCell ==
  /\ pc = "version"
  /\ UNCHANGED idxvars
  /\ IF Bound("version")
     THEN /\ Bind("version")
          /\ UNCHANGED <<provider, mu, sigma, qubitOp, quantum_instance, result, out, trace>>
     ELSE Stop

Next ==
  \/ ImportsCell
  \/ SetupCell
  \/ SkipSetupCell
  \/ DataCell
  \/ OperatorCell
  \/ UtilsCell
  \/ ExactCell
  \/ VQECell
  \/ QAOACell
  \/ VersionCell

\* a top-to-bottom run of the notebook
Spec == Init /\ [][Next]_vars

\* ------------------------------------------------------------ index_to_selection on its own
InitIdx ==
  /\ pc = "off"
  /\ defined = {}
  /\ provider = "unbound"
  /\ mu = NoVector
  /\ sigma = NoMatrix
  /\ qubitOp = NoOp
  /\ quantum_instance = NoInstance
  /\ result = NoResult
  /\ out = <<>>
  /\ trace = <<>>
  /\ reads = {}
  /\ idx_pc = "called"
  /\ idx_n \in 1 .. MaxN
  /\ idx_i \in 0 .. (2 ^ idx_n - 1)
  /\ idx_x = [k \in 0 .. (idx_n - 1) |-> 0]

CallIndexToSelection ==
  /\ idx_pc = "called"
  /\ idx_x' = index_to_selection(idx_i, idx_n)
  /\ idx_pc' = "returned"
  /\ UNCHANGED <<idx_i, idx_n>>
  /\ UNCHANGED nbvars

NextIdx == CallIndexToSelection

SpecIdx == InitIdx /\ [][NextIdx]_vars

\* ------------------------------------------------------------ properties
Selections == [Assets -> {0, 1}]

\* q x'Sigma x - mu'x of the introduction, in ticks, for the data of the run
Objective(x) ==
  q_num * SumTo([i \in Assets |-> SumTo([j \in Assets |-> x[i] * sigma[i][j] * x[j]],
                                        num_assets)], num_assets)
  - q_den * SumTo([i \in Assets |-> mu[i] * x[i]], num_assets)

Deviation(x) == Ones(x, num_assets) - budget
PenaltyTerm(x) == TicksPerOne * penalty * Deviation(x) * Deviation(x)

ExpectedCalls ==
  << <<"data", "RandomDataProvider">>, <<"operator", "portfolio">>,
     <<"solve", "exact">>, <<"print", "print_result">>,
     <<"solve", "vqe">>,   <<"print", "print_result">>,
     <<"solve", "qaoa">>,  <<"print", "print_result">> >>

CallsAt(cell) ==
  CASE cell \in {"imports", "setup", "data"} -> 0
    [] cell = "operator" -> 1
    [] cell \in {"utils", "exact"} -> 2
    [] cell = "vqe" -> 4
    [] cell = "qaoa" -> 6
    [] cell \in {"version", "done"} -> 8

\* C1: in a top-to-bottom run the calls are made in the order data provider,
\* get_operator(mu, sigma, q, budget, penalty), exact eigensolver, VQE, QAOA,
\* each exactly once; every solver runs on the operator that was built, and
\* each solver run is directly followed by one print_result call whose
\* argument is the result of that run.
Thm_C1 ==
  /\ pc # "error"
  /\ Len(trace) = CallsAt(pc)
  /\ \A k \in 1 .. Len(trace) :
       /\ <<trace[k].ev, trace[k].by>> = ExpectedCalls[k]
       /\ trace[k].ev = "operator" =>
            trace[k].op = get_operator(mu, sigma, q, budget, penalty)
       /\ trace[k].ev = "solve" =>
            /\ trace[k].op = trace[2].op
            /\ trace[k].res.by = trace[k].by
       /\ trace[k].ev = "print" =>
            /\ trace[k].res = trace[k - 1].res
            /\ out[(k - 2) \div 2].result = trace[k - 1].res
  /\ Len(out) = (IF Len(trace) < 2 THEN 0 ELSE (Len(trace) - 2) \div 2)

\* the run is complete and the three solvers returned three different results
Wit_C1 ==
  /\ pc = "done"
  /\ Len(trace) = 8
  /\ trace[4].res.top # trace[6].res.top
  /\ trace[6].res.top # trace[8].res.top

ExactPrints == {k \in 1 .. Len(out) : out[k].result.by = "exact"}

Feasible(x) == Ones(x, num_assets) = budget

\* the penalty outweighs every difference of the objective between two selections
PenaltyDominates ==
  LET objs == {Objective(x) : x \in Selections}
  IN  Max(objs) - Min(objs) < TicksPerOne * penalty

Orig_C4 ==
  (qubitOp = RecordedOp /\ Len(out) = 3) =>
    /\ out[2].optimal.x = out[1].optimal.x
    /\ out[3].optimal.x = out[1].optimal.x

StatevectorSimulator == BasicAer_get_backend("statevector_simulator")

\* C5: no cell after the account-setup cell reads `provider' (or IBMQ), the
\* solvers that take a backend run on BasicAer's statevector_simulator, and
\* the run never stops on an unbound name, whether the setup cell ran or not.
Thm_C5 ==
  /\ "provider" \notin reads
  /\ "IBMQ" \notin reads
  /\ pc # "error"
  /\ \A k \in 1 .. Len(trace) :
       trace[k].ev = "solve" =>
         IF trace[k].by = "exact"
         THEN trace[k].qi = NoInstance
         ELSE trace[k].qi.backend = StatevectorSimulator
  /\ quantum_instance # NoInstance => quantum_instance.backend = StatevectorSimulator

\* a complete run in which the setup cell was skipped
Wit_C5 ==
  /\ pc = "done"
  /\ "provider" \notin defined
  /\ provider = "unbound"
  /\ Len(out) = 3
  /\ quantum_instance.backend = StatevectorSimulator

\* C6: for 0 <= i < 2^n, index_to_selection(i, n) is a vector of n entries in
\* {0, 1} whose entry k is bit k of i (entry 0 the least significant), so the
\* entries weighted by 2^k sum to i, and the 2^n indices give 2^n different
\* vectors, every vector of {0,1}^n among them.
Thm_C6 ==
  idx_pc = "returned" =>
    /\ DOMAIN idx_x = 0 .. (idx_n - 1)
    /\ \A k \in 0 .. (idx_n - 1) : idx_x[k] \in {0, 1} /\ idx_x[k] = Bit(idx_i, k)
    /\ Weighted(idx_x, idx_n) = idx_i
    /\ \A j \in 0 .. (2 ^ idx_n - 1) :
         j # idx_i => index_to_selection(j, idx_n) # idx_x
    /\ {index_to_selection(j, idx_n) : j \in 0 .. (2 ^ idx_n - 1)}
         = [0 .. (idx_n - 1) -> {0, 1}]

\* index 5 of width 4 was decoded to [1 0 1 0]; its digits needed padding
Wit_C6 ==
  /\ idx_pc = "returned"
  /\ idx_n = 4
  /\ idx_i = 5
  /\ idx_x = [k \in 0 .. 3 |-> <<1, 0, 1, 0>>[k + 1]]
====
